---- MODULE Spec2Model ----
(***************************************************************************)
(* Model of the aggregation-pipeline sanitizer of game-analytics-server    *)
(* (src/src/db.ts, sanitizePipeline).  A pipeline is a sequence of stage   *)
(* objects; the sanitizer walks the first MAX_PIPELINE_STAGES of them and  *)
(* builds sanitizedPipeline.  One action models one iteration of the loop, *)
(* taken through the branch of the loop body that the stage selects.       *)
(***************************************************************************)
EXTENDS Integers, Sequences, FiniteSets, TLC

(***************************************************************************)
(* JavaScript values.  Every value is a record [t, v]: t is the kind and v *)
(* the payload (an integer, a sequence of one-character strings, a         *)
(* sequence of <<key, value>> pairs in key order, or a sequence of values).*)
(* Numbers are integers; NaN is the only non-integer number modelled.      *)
(***************************************************************************)
Num(n) == [t |-> "number", v |-> n]

NaN == [t |-> "nan", v |-> 0]

Null == [t |-> "null", v |-> 0]

Undefined == [t |-> "undefined", v |-> 0]

Str(cs) == [t |-> "string", v |-> cs]

Obj(ps) == [t |-> "object", v |-> ps]

Arr(xs) == [t |-> "array", v |-> xs]

\* typeof x
TypeOf(x) ==
  CASE x.t = "number" -> "number"
    [] x.t = "nan" -> "number"
    [] x.t = "string" -> "string"
    [] x.t = "undefined" -> "undefined"
    [] x.t \in {"null", "object", "array"} -> "object"

\* the truthiness test of !x and x || y
Truthy(x) ==
  CASE x.t = "number" -> x.v # 0
    [] x.t = "nan" -> FALSE
    [] x.t = "null" -> FALSE
    [] x.t = "undefined" -> FALSE
    [] x.t = "string" -> Len(x.v) > 0
    [] x.t \in {"object", "array"} -> TRUE

Digits == {"0", "1", "2", "3", "4", "5", "6", "7", "8", "9"}

DigitVal(c) ==
  CASE c = "0" -> 0 [] c = "1" -> 1 [] c = "2" -> 2 [] c = "3" -> 3
    [] c = "4" -> 4 [] c = "5" -> 5 [] c = "6" -> 6 [] c = "7" -> 7
    [] c = "8" -> 8 [] c = "9" -> 9

RECURSIVE ParseDigits(_)
ParseDigits(cs) ==
  IF Len(cs) = 0 THEN 0
  ELSE 10 * ParseDigits(SubSeq(cs, 1, Len(cs) - 1)) + DigitVal(cs[Len(cs)])

\* ToNumber, the coercion Math.min applies to its arguments (plain objects
\* have no numeric primitive; strings of decimal digits parse, others do not)
ToNumber(x) ==
  CASE x.t = "number" -> x
    [] x.t = "nan" -> NaN
    [] x.t = "null" -> Num(0)
    [] x.t = "undefined" -> NaN
    [] x.t = "string" ->
         IF \A j \in 1..Len(x.v) : x.v[j] \in Digits
         THEN Num(ParseDigits(x.v)) ELSE NaN
    [] x.t = "object" -> NaN

\* Math.min(a, b)
MathMin(a, b) ==
  LET na == ToNumber(a)
      nb == ToNumber(b)
  IN IF na.t = "nan" \/ nb.t = "nan" THEN NaN
     ELSE IF na.v <= nb.v THEN na ELSE nb

\* Object.keys(x) raises a TypeError on null and undefined
ObjectKeysThrows(x) == x.t \in {"null", "undefined"}

\* Object.keys(x): own enumerable keys in order; a primitive number has none,
\* a string and an array have their indices
ObjectKeys(x) ==
  CASE x.t = "object" -> [j \in 1..Len(x.v) |-> x.v[j][1]]
    [] x.t \in {"string", "array"} -> [j \in 1..Len(x.v) |-> ToString(j - 1)]
    [] x.t \in {"number", "nan"} -> <<>>

\* x[k] raises a TypeError on null and undefined
GetThrows(x) == x.t \in {"null", "undefined"}

\* x[k] for a key k that is not an index: undefined unless x is an object
\* that owns k
Get(x, k) ==
  IF x.t = "object" /\ \E j \in 1..Len(x.v) : x.v[j][1] = k
  THEN x.v[CHOOSE j \in 1..Len(x.v) : x.v[j][1] = k][2]
  ELSE Undefined

\* x[k] = val in strict-mode code (a TypeScript module): raises a TypeError
\* on a primitive
PutThrows(x) == x.t \notin {"object", "array"}

\* x[k] = val on an object: an owned key keeps its place, a new key goes last
Put(x, k, val) ==
  IF \E j \in 1..Len(x.v) : x.v[j][1] = k
  THEN Obj([j \in 1..Len(x.v) |->
              IF x.v[j][1] = k THEN <<k, val>> ELSE x.v[j]])
  ELSE Obj(Append(x.v, <<k, val>>))

(***************************************************************************)
(* Policy tables and constants of the sanitizer.                           *)
(***************************************************************************)
ALLOWED_OPERATIONS ==
  {"$match", "$group", "$sort", "$limit", "$project", "$lookup", "$unwind",
   "$addFields", "$set", "$count"}

DANGEROUS_OPERATIONS ==
  {"$out", "$merge", "$geoNear", "$text", "$indexStats", "$collStats",
   "$currentOp", "$listLocalSessions"}

MAX_PIPELINE_STAGES == 10

MAX_LIMIT == 1000

MAX_GROUP_SIZE == 10000

\* the literal 100 of `limitValue || 100`
DEFAULT_LIMIT == 100

\* the literal 5 of the $sort branch
MAX_SORT_FIELDS == 5

\* the literal 1000 of the $lookup branch
LOOKUP_LIMIT == 1000

\* the literal 1000 of the automatic trailing $limit
FALLBACK_LIMIT == 1000

\* a stage object with one key
Stage(k, val) == Obj(<< <<k, val>> >>)

\* const stageKey = Object.keys(stage)[0]; undefined for a stage without keys
StageKey(stage) ==
  IF Len(ObjectKeys(stage)) = 0 THEN "undefined" ELSE ObjectKeys(stage)[1]


\* numeric comparisons of JavaScript: false whenever the left side is NaN or
\* not a number
NumGT(x, n) == x.t = "number" /\ x.v > n

NumLE(x, n) == x.t = "number" /\ x.v <= n

\* the loop bound without the stage cap
LoopBound_NoCap(p) == Len(p)

\* i < Math.min(pipeline.length, MAX_PIPELINE_STAGES)
LoopBound(p) ==
  IF Len(p) <= MAX_PIPELINE_STAGES THEN Len(p) ELSE MAX_PIPELINE_STAGES

\* the stage the $limit branch pushes
LimitBranch(stage) ==
  LET limitValue == Get(stage, StageKey(stage))
  IN IF TypeOf(limitValue) = "number" /\ NumGT(limitValue, 0)
          /\ NumLE(limitValue, MAX_LIMIT)
     THEN stage
     ELSE Stage("$limit",
                MathMin(IF Truthy(limitValue) THEN limitValue
                        ELSE Num(DEFAULT_LIMIT),
                        Num(MAX_LIMIT)))

\* Object.keys((stage as any)[stageKey]) raises on a null $sort parameter
SortThrows(stage) == ObjectKeysThrows(Get(stage, StageKey(stage)))

\* the $sort branch with its threshold off by one
SortBranch_OffByOne(stage) ==
  LET param == Get(stage, StageKey(stage))
      sortFields == ObjectKeys(param)
  IN IF Len(sortFields) <= MAX_SORT_FIELDS + 1
     THEN stage
     ELSE Stage("$sort",
                Obj([j \in 1..MAX_SORT_FIELDS |->
                       <<sortFields[j], Get(param, sortFields[j])>>]))

\* the stage the $sort branch pushes
SortBranch(stage) ==
  LET param == Get(stage, StageKey(stage))
      sortFields == ObjectKeys(param)
  IN IF Len(sortFields) <= MAX_SORT_FIELDS
     THEN stage
     ELSE Stage("$sort",
                Obj([j \in 1..MAX_SORT_FIELDS |->
                       <<sortFields[j], Get(param, sortFields[j])>>]))

\* the $group branch pushing its $limit ahead of the stage
GroupBranch_LimitFirst(stage, hasLimitNow) ==
  IF ~hasLimitNow
  THEN <<Stage("$limit", Num(MAX_GROUP_SIZE)), stage>>
  ELSE <<stage>>

\* the $group branch without its hasLimit test
GroupBranch_AlwaysLimit(stage, hasLimitNow) ==
  <<stage, Stage("$limit", Num(MAX_GROUP_SIZE))>>

\* the stages the $group branch pushes
GroupBranch(stage, hasLimitNow) ==
  IF ~hasLimitNow
  THEN <<stage, Stage("$limit", Num(MAX_GROUP_SIZE))>>
  ELSE <<stage>>

\* the sub-pipeline test looking for the wrong key
HasLookupLimit_WrongKey(xs) ==
  \E j \in 1..Len(xs) : StageKey(xs[j]) = "limit"

\* lookupStage.pipeline.some((s) => Object.keys(s)[0] === "$limit")
HasLookupLimit(xs) == \E j \in 1..Len(xs) : StageKey(xs[j]) = "$limit"

\* some() stops at the first $limit; a null element before it raises
SomeThrows(xs) ==
  \E j \in 1..Len(xs) :
    /\ ObjectKeysThrows(xs[j])
    /\ \A k \in 1..(j - 1) : StageKey(xs[k]) # "$limit"

\* the $lookup branch raises when its parameter is null, when it must set
\* .pipeline on a primitive, or inside some()
LookupThrows(stage) ==
  LET lookupStage == Get(stage, StageKey(stage))
  IN \/ GetThrows(lookupStage)
     \/ /\ ~GetThrows(lookupStage)
        /\ LET pl == Get(lookupStage, "pipeline")
           IN \/ ~Truthy(pl) /\ PutThrows(lookupStage)
              \/ Truthy(pl) /\ pl.t = "array" /\ SomeThrows(pl.v)

\* the $lookup branch without its else-if arm
LookupParam_NoAppend(lookupStage) ==
  LET pl == Get(lookupStage, "pipeline")
  IN IF ~Truthy(pl)
     THEN Put(lookupStage, "pipeline",
              Arr(<<Stage("$limit", Num(LOOKUP_LIMIT))>>))
     ELSE lookupStage

\* the $lookup parameter after the branch has edited it in place
LookupParam(lookupStage) ==
  LET pl == Get(lookupStage, "pipeline")
  IN IF ~Truthy(pl)
     THEN Put(lookupStage, "pipeline",
              Arr(<<Stage("$limit", Num(LOOKUP_LIMIT))>>))
     ELSE IF pl.t = "array"
     THEN IF ~HasLookupLimit(pl.v)
          THEN Put(lookupStage, "pipeline",
                   Arr(Append(pl.v, Stage("$limit", Num(LOOKUP_LIMIT)))))
          ELSE lookupStage
     ELSE lookupStage

\* the stage object after the $lookup branch: the same object, its parameter
\* edited
LookupBranch(stage) ==
  Put(stage, StageKey(stage), LookupParam(Get(stage, StageKey(stage))))

\* the code after the loop without the automatic $limit
FallbackLimit_Never(out, hasLimitNow) == out

\* the code after the loop without its hasLimit test
FallbackLimit_Always(out, hasLimitNow) ==
  Append(out, Stage("$limit", Num(FALLBACK_LIMIT)))

\* if (!hasLimit) sanitizedPipeline.push({ $limit: 1000 })
FallbackLimit(out, hasLimitNow) ==
  IF ~hasLimitNow
  THEN Append(out, Stage("$limit", Num(FALLBACK_LIMIT)))
  ELSE out

(***************************************************************************)
(* Console output: one <<method, text, operator>> line per call.           *)
(***************************************************************************)
\* console.warn(`Dangerous operation ${stageKey} filtered out from pipeline`)
DangerousWarning(stageKey) == <<"warn", "Dangerous operation", stageKey>>

\* the second warning repeating the text of the first
UnsupportedWarning_SameText(stageKey) ==
  <<"warn", "Dangerous operation", stageKey>>

\* console.warn(`Unsupported operation ${stageKey} filtered out from pipeline`)
UnsupportedWarning(stageKey) == <<"warn", "Unsupported operation", stageKey>>

\* if (hasSort && sanitizedPipeline.length > 0) console.log(...)
SortNotice(out, hasSortNow) ==
  IF hasSortNow /\ Len(out) > 0
  THEN << <<"log", "Sort operation detected", "">> >>
  ELSE <<>>

(***************************************************************************)
(* The call as a function of its local state: st is the record of the      *)
(* argument array (edited in place by the $lookup branch), the output      *)
(* under construction, the two flags, the loop index, the position and the *)
(* console lines written so far.                                           *)
(***************************************************************************)
Entry(p) ==
  [pipeline |-> p, sanitizedPipeline |-> <<>>, hasLimit |-> FALSE,
   hasSort |-> FALSE, i |-> 0, pc |-> "loop", console |-> <<>>]

\* one iteration of the for loop, for st.i < LoopBound(st.pipeline)
LoopBody(st) ==
  LET stage == st.pipeline[st.i + 1]
      stageKey == StageKey(stage)
      next == [st EXCEPT !.i = st.i + 1]
  IN IF stageKey \in DANGEROUS_OPERATIONS
     THEN [next EXCEPT
             !.console = Append(st.console, DangerousWarning(stageKey))]
     ELSE IF stageKey \notin ALLOWED_OPERATIONS
     THEN [next EXCEPT
             !.console = Append(st.console, UnsupportedWarning(stageKey))]
     ELSE IF stageKey = "$limit"
     THEN [next EXCEPT
             !.sanitizedPipeline = Append(st.sanitizedPipeline,
                                          LimitBranch(stage)),
             !.hasLimit = TRUE]
     ELSE IF stageKey = "$sort"
     THEN IF SortThrows(stage) THEN [st EXCEPT !.pc = "threw"]
          ELSE [next EXCEPT
                  !.sanitizedPipeline = Append(st.sanitizedPipeline,
                                               SortBranch(stage)),
                  !.hasSort = TRUE]
     ELSE IF stageKey = "$group"
     THEN [next EXCEPT
             !.sanitizedPipeline = st.sanitizedPipeline
                                     \o GroupBranch(stage, st.hasLimit),
             !.hasLimit = TRUE]
     ELSE IF stageKey = "$lookup"
     THEN IF LookupThrows(stage) THEN [st EXCEPT !.pc = "threw"]
          ELSE [next EXCEPT
                  !.pipeline = [st.pipeline EXCEPT
                                  ![st.i + 1] = LookupBranch(stage)],
                  !.sanitizedPipeline = Append(st.sanitizedPipeline,
                                               LookupBranch(stage))]
     ELSE [next EXCEPT
             !.sanitizedPipeline = Append(st.sanitizedPipeline, stage)]

\* the code after the loop, up to the return
AfterLoop(st) ==
  [st EXCEPT
     !.sanitizedPipeline = FallbackLimit(st.sanitizedPipeline, st.hasLimit),
     !.console =
       st.console
         \o SortNotice(FallbackLimit(st.sanitizedPipeline, st.hasLimit),
                       st.hasSort),
     !.pc = "returned"]

RECURSIVE Run(_)
Run(st) ==
  IF st.pc # "loop" THEN st
  ELSE IF st.i < LoopBound(st.pipeline) THEN Run(LoopBody(st))
  ELSE AfterLoop(st)

\* sanitizePipeline(p) run to its end: .pc is "returned" or "threw",
\* .sanitizedPipeline the returned array, .pipeline the argument afterwards
sanitizePipeline(p) == Run(Entry(p))

(***************************************************************************)
(* Client pipelines.                                                       *)
(***************************************************************************)
MaxLen == 2

MaxTail == 2

MaxSortKeys == 6

MatchParam == Obj(<< <<"mode", Str(<<"c">>)>> >>)

GroupParam == Obj(<< <<"_id", Str(<<"$", "m">>)>> >>)

LimitValues ==
  {Num(50), Num(1000), Num(1001), Num(0), Num(-5), Null,
   Str(<<"a", "b", "c">>), Str(<<"5", "0">>)}

\* a $sort parameter of n fields k1..kn, directions alternating 1, -1
SortObj(n) ==
  Obj([j \in 1..n |->
         <<"k" \o ToString(j), Num(IF j % 2 = 1 THEN 1 ELSE -1)>>])

SortParams ==
  {SortObj(n) : n \in {1} \cup (MAX_SORT_FIELDS..MaxSortKeys)}
    \cup {Null, Num(1)}

From == <<"from", Str(<<"s">>)>>

SubPipelines ==
  {Arr(<<>>),
   Arr(<<Stage("$match", MatchParam)>>),
   Arr(<<Stage("$limit", Num(5))>>),
   Arr(<<Stage("$limit", Num(5000)), Stage("$limit", Num(7))>>),
   Null,
   Str(<<"a">>)}

LookupParams ==
  {Obj(<<From>>), Null, Num(5)}
    \cup {Obj(<<From, <<"pipeline", sp>> >>) : sp \in SubPipelines}

Stages ==
  {Stage("$match", MatchParam),
   Stage("$out", Str(<<"x">>)),
   Stage("$foo", Num(1)),
   Obj(<<>>),
   Obj(<< <<"$match", MatchParam>>, <<"$out", Str(<<"x">>)>> >>),
   Stage("$group", GroupParam)}
    \cup {Stage("$limit", lv) : lv \in LimitValues}
    \cup {Stage("$sort", sp) : sp \in SortParams}
    \cup {Stage("$lookup", lp) : lp \in LookupParams}

TailStages ==
  {Stage("$match", MatchParam),
   Stage("$out", Str(<<"x">>)),
   Stage("$group", GroupParam),
   Stage("$limit", Num(50)),
   Stage("$lookup", Obj(<<From>>))}

SeqsUpTo(S, n) == UNION {[1..m -> S] : m \in 0..n}

Padding(n) == [j \in 1..n |-> Stage("$match", MatchParam)]

\* pipelines of at most MaxLen stages, and pipelines around the stage cap:
\* up to one stage, MAX_PIPELINE_STAGES - 1 or MAX_PIPELINE_STAGES $match
\* stages, then up to MaxTail stages
Requests ==
  SeqsUpTo(Stages, MaxLen)
    \cup {h \o Padding(n) \o tl :
            h \in SeqsUpTo(Stages, 1),
            n \in {MAX_PIPELINE_STAGES - 1, MAX_PIPELINE_STAGES},
            tl \in SeqsUpTo(TailStages, MaxTail)}

(***************************************************************************)
(* State: the client's pipeline as sent, the local state of the running    *)
(* call, and which call it is: the result of the first call is passed to a *)
(* second call.                                                            *)
(*                                                                         *)
(* The analytics endpoint adds the request body, the position of the       *)
(* getAnalytics handler, the aggregate calls the storage engine received   *)
(* with what became of them, the DatabaseResult of executeAnalyticsQuery   *)
(* and the HTTP response.  The events endpoint adds the POST requests in   *)
(* progress and the scores and events collections of every game.           *)
(***************************************************************************)
VARIABLES request, pipeline, sanitizedPipeline, hasLimit, hasSort, i, pc,
          call, firstResult, console,
          body, handler, aggregateCalls, outcome, result, response,
          posts, scoresCollection, eventsCollection

sanitizerVars ==
  <<request, pipeline, sanitizedPipeline, hasLimit, hasSort, i, pc, call,
    firstResult, console>>

queryVars == <<body, handler, aggregateCalls, outcome, result, response>>

eventVars == <<posts, scoresCollection, eventsCollection>>

vars == <<sanitizerVars, queryVars, eventVars>>

\* src/src/db.ts:13-18
SUPPORTED_GAMES ==
  {"eldritch_shores", "whacky_wharf", "collapse_protocol", "gundig"}

getSupportedGames == SUPPORTED_GAMES

\* a game the server does not know; the repository's tests post it
UnsupportedGame == "tetris"

Games == SUPPORTED_GAMES \cup {UnsupportedGame}

None == [t |-> "none"]

\* no analytics request is being served
QueryIdle ==
  /\ body = None
  /\ handler = "none"
  /\ aggregateCalls = <<>>
  /\ outcome = None
  /\ result = None
  /\ response = None

MaxPosts == 2

Slots == 1..MaxPosts

\* no event has been posted and every collection is empty
EventsIdle ==
  /\ posts = [s \in Slots |-> [at |-> "none"]]
  /\ scoresCollection = [g \in Games |-> <<>>]
  /\ eventsCollection = [g \in Games |-> <<>>]

Cur ==
  [pipeline |-> pipeline, sanitizedPipeline |-> sanitizedPipeline,
   hasLimit |-> hasLimit, hasSort |-> hasSort, i |-> i, pc |-> pc,
   console |-> console]

Becomes(st) ==
  /\ pipeline' = st.pipeline
  /\ sanitizedPipeline' = st.sanitizedPipeline
  /\ hasLimit' = st.hasLimit
  /\ hasSort' = st.hasSort
  /\ i' = st.i
  /\ pc' = st.pc
  /\ console' = st.console
  /\ UNCHANGED <<request, call, firstResult>>
  /\ UNCHANGED <<queryVars, eventVars>>

InLoop == pc = "loop" /\ i < LoopBound(pipeline)

CurStage == pipeline[i + 1]

CurKey == StageKey(CurStage)

Init ==
  /\ request \in Requests
  /\ pipeline = request
  /\ sanitizedPipeline = <<>>
  /\ hasLimit = FALSE
  /\ hasSort = FALSE
  /\ i = 0
  /\ pc = "loop"
  /\ call = 1
  /\ firstResult = <<>>
  /\ console = <<>>
  /\ QueryIdle
  /\ EventsIdle

DropDangerous ==
  /\ InLoop
  /\ CurKey \in DANGEROUS_OPERATIONS
  /\ Becomes(LoopBody(Cur))

DropUnsupported ==
  /\ InLoop
  /\ CurKey \notin DANGEROUS_OPERATIONS
  /\ CurKey \notin ALLOWED_OPERATIONS
  /\ Becomes(LoopBody(Cur))

LimitStage ==
  /\ InLoop
  /\ CurKey = "$limit"
  /\ Becomes(LoopBody(Cur))

SortStage ==
  /\ InLoop
  /\ CurKey = "$sort"
  /\ ~SortThrows(CurStage)
  /\ Becomes(LoopBody(Cur))

SortRaises ==
  /\ InLoop
  /\ CurKey = "$sort"
  /\ SortThrows(CurStage)
  /\ Becomes(LoopBody(Cur))

GroupStage ==
  /\ InLoop
  /\ CurKey = "$group"
  /\ Becomes(LoopBody(Cur))

LookupStage ==
  /\ InLoop
  /\ CurKey = "$lookup"
  /\ ~LookupThrows(CurStage)
  /\ Becomes(LoopBody(Cur))

LookupRaises ==
  /\ InLoop
  /\ CurKey = "$lookup"
  /\ LookupThrows(CurStage)
  /\ Becomes(LoopBody(Cur))

KeepStage ==
  /\ InLoop
  /\ CurKey \in ALLOWED_OPERATIONS \ {"$limit", "$sort", "$group", "$lookup"}
  /\ Becomes(LoopBody(Cur))

Return ==
  /\ pc = "loop"
  /\ ~(i < LoopBound(pipeline))
  /\ Becomes(AfterLoop(Cur))

\* sanitizePipeline(sanitizePipeline(P)): the returned array is the argument
\* of a second call
Resanitize ==
  /\ pc = "returned"
  /\ call = 1
  /\ call' = 2
  /\ firstResult' = sanitizedPipeline
  /\ pipeline' = sanitizedPipeline
  /\ sanitizedPipeline' = <<>>
  /\ hasLimit' = FALSE
  /\ hasSort' = FALSE
  /\ i' = 0
  /\ pc' = "loop"
  /\ UNCHANGED <<request, console>>
  /\ UNCHANGED <<queryVars, eventVars>>

Next ==
  \/ DropDangerous
  \/ DropUnsupported
  \/ LimitStage
  \/ SortStage
  \/ SortRaises
  \/ GroupStage
  \/ LookupStage
  \/ LookupRaises
  \/ KeepStage
  \/ Return
  \/ Resanitize

Spec == Init /\ [][Next]_vars

TypeOK ==
  /\ pc \in {"idle", "loop", "returned", "threw"}
  /\ call \in {1, 2}
  /\ i \in 0..MAX_PIPELINE_STAGES
  /\ hasLimit \in BOOLEAN
  /\ hasSort \in BOOLEAN

(***************************************************************************)
(* Vocabulary of the properties.                                           *)
(***************************************************************************)
Returned == pc = "returned"

\* the array the running call was given
Argument == IF call = 1 THEN request ELSE firstResult

Take(p, n) == SubSeq(p, 1, IF Len(p) <= n THEN Len(p) ELSE n)

IsLimit(stage) == StageKey(stage) = "$limit"

LimitOf(stage) == Get(stage, "$limit")

\* a $limit value the sanitizer keeps as it is
KeptAsIs(val) == val.t = "number" /\ val.v > 0 /\ val.v <= MAX_LIMIT

GroupLimit == Stage("$limit", Num(MAX_GROUP_SIZE))

TrailingLimit == Stage("$limit", Num(FALLBACK_LIMIT))

\* what a step appended to the output
Added ==
  SubSeq(sanitizedPipeline', Len(sanitizedPipeline) + 1,
         Len(sanitizedPipeline'))

\* C1: no stage of the returned pipeline has an operator of the Denied list
\* or an operator outside the Allowed list.
C1_NoDeniedOrUnknown ==
  Returned =>
    \A j \in 1..Len(sanitizedPipeline) :
      LET keys == ObjectKeys(sanitizedPipeline[j])
      IN \A k \in 1..Len(keys) :
           keys[k] \notin DANGEROUS_OPERATIONS
             /\ keys[k] \in ALLOWED_OPERATIONS

\* C2, as stated: the returned pipeline contains at least one $limit stage
\* whose value is at most 1000.
C2_LimitAtMostMaxLimit ==
  Returned =>
    \E j \in 1..Len(sanitizedPipeline) :
      IsLimit(sanitizedPipeline[j])
        /\ NumLE(LimitOf(sanitizedPipeline[j]), MAX_LIMIT)

\* C2, amended: the returned pipeline contains at least one $limit stage, and
\* no $limit stage of it has a value above MAX_GROUP_SIZE (10000).
C2_SomeLimitNoneAboveGroupSize ==
  Returned =>
    /\ \E j \in 1..Len(sanitizedPipeline) : IsLimit(sanitizedPipeline[j])
    /\ \A j \in 1..Len(sanitizedPipeline) :
         IsLimit(sanitizedPipeline[j]) =>
           ~NumGT(LimitOf(sanitizedPipeline[j]), MAX_GROUP_SIZE)

\* a returned pipeline whose only $limit is the 10000 injected after $group
C2_Witness ==
  /\ Returned
  /\ \E j \in 1..Len(sanitizedPipeline) : sanitizedPipeline[j] = GroupLimit
  /\ \A j \in 1..Len(sanitizedPipeline) :
       IsLimit(sanitizedPipeline[j]) => sanitizedPipeline[j] = GroupLimit

\* C3: the returned pipeline contains a $limit stage of value at most
\* MAX_LIMIT, or a $group stage immediately followed by $limit MAX_GROUP_SIZE
\* with no $limit stage before that $group.
C3_LimitOrBoundedGroup ==
  Returned =>
    \/ \E j \in 1..Len(sanitizedPipeline) :
         IsLimit(sanitizedPipeline[j])
           /\ NumLE(LimitOf(sanitizedPipeline[j]), MAX_LIMIT)
    \/ \E j \in 1..(Len(sanitizedPipeline) - 1) :
         /\ StageKey(sanitizedPipeline[j]) = "$group"
         /\ sanitizedPipeline[j + 1] = GroupLimit
         /\ \A k \in 1..(j - 1) : ~IsLimit(sanitizedPipeline[k])

C5_OnlyFirstTenInspected ==
  (Returned /\ Len(Argument) > MAX_PIPELINE_STAGES) =>
    /\ sanitizedPipeline =
         sanitizePipeline(Take(Argument, MAX_PIPELINE_STAGES)).sanitizedPipeline
    /\ \A j \in (MAX_PIPELINE_STAGES + 1)..Len(Argument) :
         pipeline[j] = Argument[j]

\* a call that returned on a request whose 11th stage is a $limit or a
\* $group, none of the first ten being one: the trailing $limit was appended
C5_Witness ==
  /\ Returned
  /\ call = 1
  /\ Len(request) > MAX_PIPELINE_STAGES
  /\ StageKey(request[MAX_PIPELINE_STAGES + 1]) \in {"$limit", "$group"}
  /\ \A j \in 1..MAX_PIPELINE_STAGES :
       StageKey(request[j]) \notin {"$limit", "$group"}
  /\ sanitizedPipeline[Len(sanitizedPipeline)] = TrailingLimit

\* C6: every $sort stage of the returned pipeline has at most 5 sort keys; a
\* step on a $sort stage of more than 5 keys pushes a $sort of exactly the
\* first 5 keys with their directions, and a step on a $sort stage of at most
\* 5 keys pushes the stage unchanged.
C6_SortTruncation ==
  /\ [](Returned =>
          \A j \in 1..Len(sanitizedPipeline) :
            StageKey(sanitizedPipeline[j]) = "$sort" =>
              Len(ObjectKeys(Get(sanitizedPipeline[j], "$sort")))
                <= MAX_SORT_FIELDS)
  /\ [][(InLoop /\ CurKey = "$sort" /\ pc' = "loop") =>
          LET param == Get(CurStage, "$sort")
          IN Added =
               << IF Len(ObjectKeys(param)) <= MAX_SORT_FIELDS
                  THEN CurStage
                  ELSE Stage("$sort",
                             Obj(SubSeq(param.v, 1, MAX_SORT_FIELDS))) >>
        ]_vars

\* a returned pipeline holding the 5-key $sort cut from a longer request stage
C6_Witness ==
  /\ Returned
  /\ call = 1
  /\ \E j \in 1..Len(request) :
       /\ StageKey(request[j]) = "$sort"
       /\ ~SortThrows(request[j])
       /\ Len(ObjectKeys(Get(request[j], "$sort"))) > MAX_SORT_FIELDS
  /\ \E j \in 1..Len(sanitizedPipeline) :
       sanitizedPipeline[j] = Stage("$sort", SortObj(MAX_SORT_FIELDS))

C8_NeverRaises == pc # "threw"

\* C9: a step on a $limit stage pushes the stage itself when its value is a
\* positive number of at most 1000, else one $limit of min(value, 1000) when
\* the value is a positive number and of 100 when it is not; it sets hasLimit.
C9_LimitRule ==
  [][(InLoop /\ CurKey = "$limit") =>
       LET lv == Get(CurStage, "$limit")
           positive == lv.t = "number" /\ lv.v > 0
       IN /\ hasLimit'
          /\ Added =
               << IF positive /\ lv.v <= MAX_LIMIT THEN CurStage
                  ELSE Stage("$limit",
                             Num(IF ~positive THEN DEFAULT_LIMIT
                                 ELSE IF lv.v <= MAX_LIMIT THEN lv.v
                                 ELSE MAX_LIMIT)) >>
    ]_vars

\* C10: every step of a call leaves the stages already in the output where
\* they are; a loop step moves on to the next argument stage and appends
\* nothing, or the stage it looked at (as it is, or rewritten under the same
\* operator), or a $group stage followed by $limit 10000; the step after the
\* loop appends nothing or $limit 1000 and returns.
C10_OrderPreserved ==
  [][pc = "loop" =>
       /\ Len(sanitizedPipeline') >= Len(sanitizedPipeline)
       /\ SubSeq(sanitizedPipeline', 1, Len(sanitizedPipeline))
            = sanitizedPipeline
       /\ IF InLoop
          THEN /\ pc' = "threw" \/ i' = i + 1
               /\ \/ Added = <<>>
                  \/ Added = <<pipeline'[i + 1]>>
                  \/ /\ Len(Added) = 1
                     /\ CurKey \in {"$limit", "$sort"}
                     /\ StageKey(Added[1]) = CurKey
                  \/ /\ CurKey = "$group"
                     /\ Added = <<CurStage, GroupLimit>>
          ELSE /\ pc' = "returned"
               /\ Added \in {<<>>, <<TrailingLimit>>}
    ]_vars

\* a returned pipeline with a kept stage behind a $group and its injected
\* $limit
C10_Witness ==
  /\ Returned
  /\ call = 1
  /\ \E j \in 1..(Len(sanitizedPipeline) - 2) :
       /\ StageKey(sanitizedPipeline[j]) = "$group"
       /\ sanitizedPipeline[j + 1] = GroupLimit
       /\ sanitizedPipeline[j + 2] = request[Len(request)]
       /\ StageKey(request[Len(request)]) = "$match"

\* the console lines a step wrote
Emitted == SubSeq(console', Len(console) + 1, Len(console'))

\* C11: a step on a $group stage pushes the stage, followed by $limit 10000
\* exactly when the output so far holds no $limit stage.
C11_GroupLimitWhenNoEarlierLimit ==
  [][(InLoop /\ CurKey = "$group") =>
       Added =
         IF \E j \in 1..Len(sanitizedPipeline) :
              IsLimit(sanitizedPipeline[j])
         THEN <<CurStage>>
         ELSE <<CurStage, GroupLimit>>
    ]_vars

\* a returned pipeline of two $group stages, the $limit 10000 behind the
\* first only
C11_Witness ==
  /\ Returned
  /\ call = 1
  /\ Len(request) = 2
  /\ StageKey(request[1]) = "$group"
  /\ StageKey(request[2]) = "$group"
  /\ sanitizedPipeline = <<request[1], GroupLimit, request[2]>>

\* C12: the step after the loop appends $limit 1000, as the last stage, when
\* none of the first MAX_PIPELINE_STAGES argument stages is a $limit or a
\* $group stage, and appends nothing otherwise.
C12_FallbackIffNoLimitNoGroup ==
  [][(pc = "loop" /\ ~InLoop) =>
       LET considered == Take(Argument, MAX_PIPELINE_STAGES)
       IN /\ Added =
               IF \A j \in 1..Len(considered) :
                    StageKey(considered[j]) \notin {"$limit", "$group"}
               THEN <<TrailingLimit>>
               ELSE <<>>
          /\ pc' = "returned"
    ]_vars

\* [out, limit 50] returned as [limit 50]: the dropped stage gone, the
\* client's $limit kept, no $limit 1000 behind it
C12_Witness ==
  /\ Returned
  /\ call = 1
  /\ Len(request) = 2
  /\ StageKey(request[1]) = "$out"
  /\ request[2] = Stage("$limit", Num(50))
  /\ sanitizedPipeline = <<request[2]>>

\* C13: a step on a $lookup stage pushes that stage, its sub-pipeline
\* [$limit 1000] when it was absent, untouched when it was an array holding a
\* $limit stage, and with $limit 1000 appended when it was an array holding
\* none.
C13_LookupThreeWays ==
  [][(InLoop /\ CurKey = "$lookup") =>
       LET sub == Get(Get(CurStage, "$lookup"), "pipeline")
           injected == Stage("$limit", Num(1000))
       IN /\ Len(Added) = 1
          /\ StageKey(Added[1]) = "$lookup"
          /\ LET after == Get(Get(Added[1], "$lookup"), "pipeline")
             IN IF sub.t \in {"undefined", "null"}
                THEN after = Arr(<<injected>>)
                ELSE IF sub.t = "array"
                THEN after =
                       IF \E k \in 1..Len(sub.v) : IsLimit(sub.v[k])
                       THEN sub
                       ELSE Arr(Append(sub.v, injected))
                ELSE after = sub
    ]_vars

\* C14: a step on a stage with no key or with more than one key pushes
\* nothing.
C14_MalformedStageDropped ==
  [][(InLoop /\ Len(ObjectKeys(CurStage)) # 1) =>
       (Added = <<>> /\ pc' = "loop")
    ]_vars

\* C15: the argument array and every stage object in it stay what they were
\* when the call was made.
C15_ArgumentUnmodified == pipeline = Argument

Text(s) == [t |-> "string", v |-> s]

\* vine.object({game: string().trim().minLength(1),
\*              pipeline: array(object({}).allowUnknownProperties())})
analyticsQuerySchema(b) ==
  /\ b.game.t = "string"
  /\ b.game.v # ""
  /\ b.pipeline.t = "array"
  /\ \A k \in 1..Len(b.pipeline.v) : b.pipeline.v[k].t = "object"

\* {data} when the body passes the schema, {error} otherwise
validateInput(b) ==
  IF analyticsQuerySchema(b) THEN [data |-> b]
  ELSE [error |-> "validation failed"]

HasData(validationResult) == "data" \in DOMAIN validationResult

GameSupported_Any(game) == TRUE

\* getSupportedGames().includes(game)
GameSupported(game) == game \in getSupportedGames

AggregateArgument_Raw(raw, sanitized) == raw

\* the array executeAnalyticsQuery passes to aggregate
AggregateArgument(raw, sanitized) == sanitized

ErrorMessage_Generic(error) == "Unknown error"

\* error instanceof Error ? error.message : "Unknown error"
ErrorMessage(error) ==
  IF error.isError THEN error.message ELSE "Unknown error"

Success(data) == [success |-> TRUE, data |-> data]

Failure(error) == [success |-> FALSE, error |-> ErrorMessage(error)]

\* what Object.keys(null) and a property read of null throw
SanitizerError ==
  [isError |-> TRUE, message |-> "Cannot convert undefined or null to object"]

MaxQueryLen == 2

QueryStages ==
  {Stage("$match", MatchParam),
   Stage("$out", Str(<<"x">>)),
   Stage("$foo", Num(1)),
   Stage("$limit", Num(50)),
   Stage("$limit", Num(1001)),
   Stage("$sort", SortObj(2)),
   Stage("$sort", Null),
   Stage("$group", GroupParam),
   Stage("$lookup", Obj(<<From>>)),
   Stage("$lookup", Null)}

QueryPipelines == SeqsUpTo(QueryStages, MaxQueryLen)

\* request bodies: a pipeline for a supported, an unsupported, an empty and
\* a missing game; a pipeline that is no array; a stage that is no object
Bodies ==
  {[game |-> g, pipeline |-> Arr(p)] :
     g \in {Text("gundig"), Text(UnsupportedGame), Text(""), Undefined},
     p \in QueryPipelines}
    \cup {[game |-> g, pipeline |-> x] :
            g \in {Text("gundig"), Text(UnsupportedGame)},
            x \in {Str(<<"x">>), Arr(<<Num(1)>>), Undefined}}

\* what the storage engine may answer
ResultSets == {<<>>, <<"doc1">>, <<"doc1", "doc2">>}

StorageErrors ==
  {[isError |-> TRUE, message |-> "connection timed out"],
   [isError |-> TRUE, message |-> "unrecognized pipeline stage"]}

SanitizerIdle ==
  /\ request = <<>>
  /\ pipeline = <<>>
  /\ sanitizedPipeline = <<>>
  /\ hasLimit = FALSE
  /\ hasSort = FALSE
  /\ i = 0
  /\ pc = "idle"
  /\ call = 1
  /\ firstResult = <<>>
  /\ console = <<>>

InitQuery ==
  /\ SanitizerIdle
  /\ body \in Bodies
  /\ handler = "received"
  /\ aggregateCalls = <<>>
  /\ outcome = None
  /\ result = None
  /\ response = None
  /\ EventsIdle

\* validation fails: 400 "Invalid query data"
QueryInvalid ==
  /\ handler = "received"
  /\ ~HasData(validateInput(body))
  /\ response' = [status |-> 400, error |-> "Invalid query data"]
  /\ handler' = "responded"
  /\ UNCHANGED <<sanitizerVars, body, aggregateCalls, outcome, result,
                 eventVars>>

\* the game is not supported: 400 "Invalid game"
QueryGameUnsupported ==
  /\ handler = "received"
  /\ HasData(validateInput(body))
  /\ ~GameSupported(validateInput(body).data.game.v)
  /\ response' = [status |-> 400, error |-> "Invalid game"]
  /\ handler' = "responded"
  /\ UNCHANGED <<sanitizerVars, body, aggregateCalls, outcome, result,
                 eventVars>>

\* executeAnalyticsQuery(queryData.game, queryData.pipeline) enters
\* sanitizePipeline
QueryExecute ==
  /\ handler = "received"
  /\ HasData(validateInput(body))
  /\ GameSupported(validateInput(body).data.game.v)
  /\ handler' = "executing"
  /\ request' = validateInput(body).data.pipeline.v
  /\ pipeline' = validateInput(body).data.pipeline.v
  /\ sanitizedPipeline' = <<>>
  /\ hasLimit' = FALSE
  /\ hasSort' = FALSE
  /\ i' = 0
  /\ pc' = "loop"
  /\ UNCHANGED <<call, firstResult, console, body, aggregateCalls, outcome,
                 result, response, eventVars>>

\* getEventsCollection(game).aggregate(sanitizedPipeline).toArray()
Aggregate ==
  /\ handler = "executing"
  /\ pc = "returned"
  /\ aggregateCalls' =
       Append(aggregateCalls,
              [game |-> body.game.v,
               pipeline |-> AggregateArgument(pipeline, sanitizedPipeline)])
  /\ handler' = "awaiting"
  /\ UNCHANGED <<sanitizerVars, body, outcome, result, response, eventVars>>

AggregateResolves ==
  /\ handler = "awaiting"
  /\ \E data \in ResultSets :
       /\ outcome' = [t |-> "resolved", data |-> data]
       /\ result' = Success(data)
  /\ handler' = "resumed"
  /\ UNCHANGED <<sanitizerVars, body, aggregateCalls, response, eventVars>>

AggregateRejects ==
  /\ handler = "awaiting"
  /\ \E error \in StorageErrors :
       /\ outcome' = [t |-> "rejected", error |-> error]
       /\ result' = Failure(error)
  /\ console' =
       Append(console,
              <<"error", "Error executing analytics query", body.game.v>>)
  /\ handler' = "resumed"
  /\ UNCHANGED <<request, pipeline, sanitizedPipeline, hasLimit, hasSort, i,
                 pc, call, firstResult, body, aggregateCalls, response,
                 eventVars>>

\* the catch block receives what sanitizePipeline threw
SanitizerErrorCaught ==
  /\ handler = "executing"
  /\ pc = "threw"
  /\ result' = Failure(SanitizerError)
  /\ console' =
       Append(console,
              <<"error", "Error executing analytics query", body.game.v>>)
  /\ handler' = "resumed"
  /\ UNCHANGED <<request, pipeline, sanitizedPipeline, hasLimit, hasSort, i,
                 pc, call, firstResult, body, aggregateCalls, outcome,
                 response, eventVars>>

\* !result.success: 500 "Database error"
RespondDatabaseError ==
  /\ handler = "resumed"
  /\ ~result.success
  /\ response' = [status |-> 500, error |-> "Database error"]
  /\ handler' = "responded"
  /\ UNCHANGED <<sanitizerVars, body, aggregateCalls, outcome, result,
                 eventVars>>

\* res.json(result.data)
RespondData ==
  /\ handler = "resumed"
  /\ result.success
  /\ response' = [status |-> 200, body |-> result.data]
  /\ handler' = "responded"
  /\ UNCHANGED <<sanitizerVars, body, aggregateCalls, outcome, result,
                 eventVars>>

NextQuery ==
  \/ QueryInvalid
  \/ QueryGameUnsupported
  \/ QueryExecute
  \/ DropDangerous
  \/ DropUnsupported
  \/ LimitStage
  \/ SortStage
  \/ SortRaises
  \/ GroupStage
  \/ LookupStage
  \/ LookupRaises
  \/ KeepStage
  \/ Return
  \/ Aggregate
  \/ AggregateResolves
  \/ AggregateRejects
  \/ SanitizerErrorCaught
  \/ RespondDatabaseError
  \/ RespondData

SpecQuery == InitQuery /\ [][NextQuery]_vars

TypeOKQuery ==
  /\ handler \in {"none", "received", "executing", "awaiting", "resumed",
                  "responded"}
  /\ Len(aggregateCalls) \in {0, 1}
  /\ pc \in {"idle", "loop", "returned", "threw"}

\* C17: every pipeline handed to the storage engine's aggregate is handed
\* over after sanitizePipeline has returned, and it is exactly the output
\* of sanitizePipeline on the raw pipeline of the request, never the raw
\* pipeline itself.
C17_StorageSeesSanitizedOnly ==
  \A k \in 1..Len(aggregateCalls) :
    /\ pc = "returned"
    /\ sanitizePipeline(request).pc = "returned"
    /\ aggregateCalls[k].pipeline
         = sanitizePipeline(request).sanitizedPipeline

\* a storage call whose pipeline differs from the one the client sent
C17_Witness ==
  /\ Len(aggregateCalls) = 1
  /\ Len(request) = 2
  /\ StageKey(request[1]) = "$out"
  /\ StageKey(request[2]) = "$group"
  /\ aggregateCalls[1].pipeline = <<request[2], GroupLimit>>

\* C18: executeAnalyticsQuery calls the storage engine at most once; a
\* rejected call gives the single result {success: false, error: <the
\* message of the storage error>} without data, a resolved call gives
\* {success: true, data: <the result set>}.
C18_OneStorageCallOneResult ==
  /\ Len(aggregateCalls) <= 1
  /\ outcome.t = "rejected" =>
       /\ Len(aggregateCalls) = 1
       /\ result = [success |-> FALSE, error |-> outcome.error.message]
  /\ outcome.t = "resolved" =>
       /\ Len(aggregateCalls) = 1
       /\ result = [success |-> TRUE, data |-> outcome.data]
  /\ (handler \in {"resumed", "responded"} /\ result # None) =>
       outcome.t \in {"rejected", "resolved"} \/ pc = "threw"

\* a rejected storage call answered with 500 after one call
C18_Witness ==
  /\ handler = "responded"
  /\ Len(aggregateCalls) = 1
  /\ outcome.t = "rejected"
  /\ result = [success |-> FALSE, error |-> "connection timed out"]
  /\ response.status = 500

\* C19: a request whose body fails validation or whose game is not
\* supported never reaches sanitizePipeline or the storage engine, and its
\* response is 400.
C19_RejectedBeforeSanitizer ==
  (~analyticsQuerySchema(body) \/ body.game.v \notin SUPPORTED_GAMES) =>
    /\ pc = "idle"
    /\ aggregateCalls = <<>>
    /\ handler \in {"received", "responded"}
    /\ handler = "responded" => response.status = 400

\* a valid body for an unsupported game, answered 400 "Invalid game"
C19_Witness ==
  /\ handler = "responded"
  /\ analyticsQuerySchema(body)
  /\ body.game.v = UnsupportedGame
  /\ Len(body.pipeline.v) = 2
  /\ response = [status |-> 400, error |-> "Invalid game"]
  /\ pc = "idle"

(***************************************************************************)
(* The events endpoint: handleEvent (src/src/events.ts) validates the      *)
(* body, checks the game, writes a score record through insertScore when   *)
(* the event is a high score, then writes the event through insertEvent    *)
(* (src/src/db.ts).  Requests are served concurrently: a handler gives way *)
(* at every await, so the deleteMany and insertOne of insertScore and the  *)
(* insertOne of insertEvent are separate steps, and each of them may be    *)
(* rejected by the storage engine.                                         *)
(***************************************************************************)

\* data.<field>.trim() === "" on the fields of the bodies below, which all
\* carry the seven required fields as strings
Blank(str) == str = ""

validateGameEvent(data) ==
  /\ ~Blank(data.game)
  /\ ~Blank(data.mode)
  /\ ~Blank(data.player)
  /\ ~Blank(data.run)
  /\ ~Blank(data.event)
  /\ ~Blank(data.timestamp)

\* typeof data.data.score is "number" exactly when data.data has a score
validateScoreEvent(data) ==
  /\ validateGameEvent(data)
  /\ data.event = "high_score"
  /\ "score" \in DOMAIN data.data
  /\ ~(data.data.score < 0)
  /\ "player_name" \in DOMAIN data.data
  /\ ~Blank(data.data.player_name)

ScoreRecord(eventData) ==
  [game |-> eventData.game,
   mode |-> eventData.mode,
   player |-> eventData.player,
   run |-> eventData.run,
   player_name |-> eventData.data.player_name,
   score |-> eventData.data.score,
   data |-> eventData.data,
   timestamp |-> eventData.timestamp]

\* the documents of a collection that deleteMany({run}) leaves
DeleteManyByRun(docs, run) == SelectSeq(docs, LAMBDA d : d.run # run)

InsertOne_Lost(docs, doc) == docs

InsertOne(docs, doc) == Append(docs, doc)

\* createTestEvent(game, mode, player, score), with the run it hard-codes
\* or another one
TestEvent(game, player, run, score) ==
  [game |-> game,
   mode |-> "classic",
   player |-> player,
   run |-> run,
   event |-> "high_score",
   data |-> [score |-> score, player_name |-> player],
   timestamp |-> "2024-01-01T00:00:00.000Z"]

Events ==
  {TestEvent("gundig", "player1", "test-run-1", 1500),
   TestEvent("gundig", "player2", "test-run-1", 2000),
   TestEvent("gundig", "player2", "test-run-2", 2000),
   TestEvent(UnsupportedGame, "player1", "test-run-1", 1500),
   TestEvent("gundig", "player1", "", 1500),
   [TestEvent("gundig", "player1", "test-run-1", 1500) EXCEPT
      !.event = "level_up", !.data = [level |-> 3]]}

InitEvents ==
  /\ SanitizerIdle
  /\ QueryIdle
  /\ EventsIdle

At(s, position) == posts[s].at = position

Goto(s, position) ==
  posts' = [posts EXCEPT ![s] = [@ EXCEPT !.at = position]]

Respond_AlwaysCreated(s, status, error) ==
  posts' = [posts EXCEPT
              ![s] = [at |-> "done", event |-> @.event,
                      response |-> [status |-> 201, error |-> ""]]]

Respond(s, status, error) ==
  posts' = [posts EXCEPT
              ![s] = [at |-> "done", event |-> @.event,
                      response |-> [status |-> status, error |-> error]]]

\* POST /api/events arrives with its body
Post ==
  \E s \in Slots, e \in Events :
    /\ At(s, "none")
    /\ \A r \in 1..(s - 1) : ~At(r, "none")
    /\ posts' = [posts EXCEPT ![s] = [at |-> "received", event |-> e]]
    /\ UNCHANGED <<sanitizerVars, queryVars, scoresCollection,
                   eventsCollection>>

RejectEvent ==
  \E s \in Slots :
    /\ At(s, "received")
    /\ ~validateGameEvent(posts[s].event)
    /\ Respond(s, 400, "Invalid event data")
    /\ UNCHANGED <<sanitizerVars, queryVars, scoresCollection,
                   eventsCollection>>

RejectGame ==
  \E s \in Slots :
    /\ At(s, "received")
    /\ validateGameEvent(posts[s].event)
    /\ ~GameSupported(posts[s].event.game)
    /\ Respond(s, 400, "Invalid game")
    /\ UNCHANGED <<sanitizerVars, queryVars, scoresCollection,
                   eventsCollection>>

\* a high score: insertScore is called and awaits deleteMany
BeginInsertScore ==
  \E s \in Slots :
    /\ At(s, "received")
    /\ validateGameEvent(posts[s].event)
    /\ GameSupported(posts[s].event.game)
    /\ validateScoreEvent(posts[s].event)
    /\ Goto(s, "deleteMany")
    /\ UNCHANGED <<sanitizerVars, queryVars, scoresCollection,
                   eventsCollection>>

\* any other event: insertEvent is called and awaits insertOne
BeginInsertEvent ==
  \E s \in Slots :
    /\ At(s, "received")
    /\ validateGameEvent(posts[s].event)
    /\ GameSupported(posts[s].event.game)
    /\ ~validateScoreEvent(posts[s].event)
    /\ Goto(s, "insertEvent")
    /\ UNCHANGED <<sanitizerVars, queryVars, scoresCollection,
                   eventsCollection>>

\* scoresCollection.deleteMany({run: score.run}) resolves
DeleteManyResolves ==
  \E s \in Slots :
    /\ At(s, "deleteMany")
    /\ scoresCollection' =
         [scoresCollection EXCEPT
            ![posts[s].event.game] =
               DeleteManyByRun(@, ScoreRecord(posts[s].event).run)]
    /\ Goto(s, "insertScore")
    /\ UNCHANGED <<sanitizerVars, queryVars, eventsCollection>>

\* deleteMany rejects: insertScore returns {success: false}, the handler
\* answers 500 "Database error"
DeleteManyRejects ==
  \E s \in Slots :
    /\ At(s, "deleteMany")
    /\ Respond(s, 500, "Database error")
    /\ UNCHANGED <<sanitizerVars, queryVars, scoresCollection,
                   eventsCollection>>

\* scoresCollection.insertOne(score) resolves: insertScore returns
\* {success: true} and the handler calls insertEvent
InsertScoreResolves ==
  \E s \in Slots :
    /\ At(s, "insertScore")
    /\ scoresCollection' =
         [scoresCollection EXCEPT
            ![posts[s].event.game] =
               InsertOne(@, ScoreRecord(posts[s].event))]
    /\ Goto(s, "insertEvent")
    /\ UNCHANGED <<sanitizerVars, queryVars, eventsCollection>>

InsertScoreRejects ==
  \E s \in Slots :
    /\ At(s, "insertScore")
    /\ Respond(s, 500, "Database error")
    /\ UNCHANGED <<sanitizerVars, queryVars, scoresCollection,
                   eventsCollection>>

\* getEventsCollection(event.game).insertOne(event) resolves: 201
InsertEventResolves ==
  \E s \in Slots :
    /\ At(s, "insertEvent")
    /\ eventsCollection' =
         [eventsCollection EXCEPT
            ![posts[s].event.game] = InsertOne(@, posts[s].event)]
    /\ Respond(s, 201, "")
    /\ UNCHANGED <<sanitizerVars, queryVars, scoresCollection>>

InsertEventRejects ==
  \E s \in Slots :
    /\ At(s, "insertEvent")
    /\ Respond(s, 500, "Database error")
    /\ UNCHANGED <<sanitizerVars, queryVars, scoresCollection,
                   eventsCollection>>

NextEvents ==
  \/ Post
  \/ RejectEvent
  \/ RejectGame
  \/ BeginInsertScore
  \/ BeginInsertEvent
  \/ DeleteManyResolves
  \/ DeleteManyRejects
  \/ InsertScoreResolves
  \/ InsertScoreRejects
  \/ InsertEventResolves
  \/ InsertEventRejects

SpecEvents == InitEvents /\ [][NextEvents]_vars

TypeOKEvents ==
  /\ \A s \in Slots :
       posts[s].at \in {"none", "received", "deleteMany", "insertScore",
                        "insertEvent", "done"}
  /\ \A g \in Games :
       /\ Len(scoresCollection[g]) <= MaxPosts
       /\ Len(eventsCollection[g]) <= MaxPosts

\* the requests that have arrived
Sent == {s \in Slots : ~At(s, "none")}

\* answered 201
Accepted(s) == At(s, "done") /\ posts[s].response.status = 201

\* C20: once every request sent so far is an accepted high_score event for
\* one game and no two of them are from the same player, the game's scores
\* collection holds as many score records as there were events.
C20_OneScoreRecordPerPlayer ==
  \A g \in Games :
    (/\ \A s \in Sent :
          /\ Accepted(s)
          /\ posts[s].event.game = g
          /\ posts[s].event.event = "high_score"
     /\ \A s, r \in Sent :
          s # r => posts[s].event.player # posts[r].event.player)
      => Len(scoresCollection[g]) = Cardinality(Sent)

\* the stages among the first MAX_PIPELINE_STAGES of the argument that the
\* loop passes on, each as one stage of the output
PassedOn ==
  {j \in 1..Len(Take(Argument, MAX_PIPELINE_STAGES)) :
     StageKey(Argument[j]) \in ALLOWED_OPERATIONS}

\* C24: the returned pipeline holds at most one stage more than the input
\* stages passed on (one $limit injected after a $group or one fallback
\* $limit, never both, never two), and between 1 and
\* MAX_PIPELINE_STAGES + 1 = 11 stages.
C24_AtMostOneSyntheticStage ==
  Returned =>
    /\ Len(sanitizedPipeline) - Cardinality(PassedOn) \in {0, 1}
    /\ Len(sanitizedPipeline) >= 1
    /\ Len(sanitizedPipeline) <= 11

\* ten stages passed on, the first a $group: eleven stages returned
C24_Witness ==
  /\ Returned
  /\ call = 1
  /\ Len(request) >= 10
  /\ StageKey(request[1]) = "$group"
  /\ Cardinality(PassedOn) = 10
  /\ Len(sanitizedPipeline) = 11
  /\ sanitizedPipeline[2] = GroupLimit

\* doc is one of the documents of the collection
Holds(docs, doc) == \E j \in 1..Len(docs) : docs[j] = doc

\* request s is answered in this step
Answered(s) == ~At(s, "done") /\ posts'[s].at = "done"

C23_OneRecordPerRun ==
  \A g \in Games :
    \A j, k \in 1..Len(scoresCollection[g]) :
      j # k => scoresCollection[g][j].run # scoresCollection[g][k].run

\* C25: for a high_score event, a failure inside insertScore is answered
\* 500 and leaves the events collection as it was; a failure of the event
\* insertion after the score was written is answered 500 and leaves the
\* scores collection as it was; the events collection grows only in the
\* step that answers 201, and that step comes after the score insertion
\* of the same request.
C25_ScoreBeforeEvent ==
  [][/\ \A s \in Slots :
          /\ ((At(s, "deleteMany") \/ At(s, "insertScore")) /\ Answered(s)) =>
               /\ posts'[s].response.status = 500
               /\ eventsCollection' = eventsCollection
               /\ scoresCollection' = scoresCollection
          /\ (At(s, "insertEvent") /\ Answered(s)
                /\ eventsCollection' = eventsCollection) =>
               /\ posts'[s].response.status = 500
               /\ scoresCollection' = scoresCollection
          /\ (Answered(s) /\ posts'[s].response.status = 201) =>
               /\ At(s, "insertEvent")
               /\ eventsCollection'
                    = [eventsCollection EXCEPT
                         ![posts[s].event.game] = Append(@, posts[s].event)]
          /\ (~At(s, "none") /\ ~At(s, "insertEvent")
                /\ posts'[s].at = "insertEvent"
                /\ validateScoreEvent(posts[s].event)) =>
               /\ At(s, "insertScore")
               /\ scoresCollection' # scoresCollection
     /\ eventsCollection' # eventsCollection =>
          \E s \in Slots : Answered(s) /\ posts'[s].response.status = 201]_vars

\* the score was written, the event insertion failed: 500, the score
\* record is stored and the event is not
C25_Witness ==
  /\ At(1, "done")
  /\ validateScoreEvent(posts[1].event)
  /\ posts[1].response.status = 500
  /\ scoresCollection["gundig"] = <<ScoreRecord(posts[1].event)>>
  /\ eventsCollection["gundig"] = <<>>
  /\ At(2, "none")

(***************************************************************************)
(* The scores endpoint: getHighScores (src/src/events.ts) checks the game  *)
(* of GET /api/scores/:game/:mode and answers with what findHighScores     *)
(* (src/src/db.ts) reads from the game's scores collection.  The request   *)
(* is served with the handler variables of the analytics endpoint: body    *)
(* holds req.params, result the DatabaseResult, response the answer.       *)
(***************************************************************************)
HIGH_SCORES_LIMIT == 100

FindByMode_All(docs, mode) == docs

\* collection.find({ mode })
FindByMode(docs, mode) == SelectSeq(docs, LAMBDA d : d.mode = mode)

\* .sort({ score: -1 }): a document's place is one more than the number of
\* documents that go before it, those of a higher score and those of the
\* same score met earlier
SortByScoreDesc(docs) ==
  LET place == [j \in 1..Len(docs) |->
                  1 + Cardinality({k \in 1..Len(docs) :
                                     \/ docs[k].score > docs[j].score
                                     \/ /\ docs[k].score = docs[j].score
                                        /\ k < j})]
  IN [p \in 1..Len(docs) |->
        docs[CHOOSE j \in 1..Len(docs) : place[j] = p]]

Reverse(docs) == [j \in 1..Len(docs) |-> docs[Len(docs) + 1 - j]]

\* the sort is not stable: documents of equal score come in either order
SortOrders(docs) == {SortByScoreDesc(docs), SortByScoreDesc(Reverse(docs))}

\* the arrays find({mode}).sort({score: -1}).limit(limit).toArray() may
\* resolve with
findHighScores(docs, mode, limit) ==
  {Take(sorted, limit) : sorted \in SortOrders(FindByMode(docs, mode))}

\* what the response shows of a score record
ScoreEntry(score) ==
  [player_name |-> score.player_name,
   score |-> score.score,
   timestamp |-> score.timestamp]

\* the score record of player k's high score, every player in a run of
\* their own
ScoreDoc(game, mode, k, score) ==
  [ScoreRecord(TestEvent(game, "player" \o ToString(k),
                         "run-" \o ToString(k), score))
     EXCEPT !.mode = mode]

Modes == {"classic", "hard"}

MaxScores == 2

\* collections of up to MaxScores records of either mode with equal or
\* different scores, and collections of one mode around the limit with
\* scores in no order
ScoreCollections(game) ==
  UNION {{[k \in 1..n |-> ScoreDoc(game, f[k][1], k, f[k][2])] :
            f \in [1..n -> Modes \X {1000, 1500}]} : n \in 0..MaxScores}
    \cup {[k \in 1..n |-> ScoreDoc(game, "classic", k, (k * 37) % 103)] :
            n \in {HIGH_SCORES_LIMIT - 1, HIGH_SCORES_LIMIT,
                   HIGH_SCORES_LIMIT + 1}}

ScoreParams ==
  [game : {"gundig", "whacky_wharf", UnsupportedGame},
   mode : Modes \cup {"expert"}]

InitScores ==
  /\ SanitizerIdle
  /\ body \in ScoreParams
  /\ handler = "received"
  /\ aggregateCalls = <<>>
  /\ outcome = None
  /\ result = None
  /\ response = None
  /\ posts = [s \in Slots |-> [at |-> "none"]]
  /\ eventsCollection = [g \in Games |-> <<>>]
  /\ \E c \in ScoreCollections("gundig"),
        w \in {<<>>, <<ScoreDoc("whacky_wharf", "classic", 1, 1500)>>} :
       scoresCollection =
         [g \in Games |->
            IF g = "gundig" THEN c
            ELSE IF g = "whacky_wharf" THEN w
            ELSE <<>>]

ScoresGameUnsupported ==
  /\ handler = "received"
  /\ ~GameSupported(body.game)
  /\ response' = [status |-> 400, error |-> "Invalid game"]
  /\ handler' = "responded"
  /\ UNCHANGED <<sanitizerVars, body, aggregateCalls, outcome, result,
                 eventVars>>

\* findHighScores(game, mode, 100) is called and awaits toArray()
FindHighScores ==
  /\ handler = "received"
  /\ GameSupported(body.game)
  /\ handler' = "awaiting"
  /\ UNCHANGED <<sanitizerVars, body, aggregateCalls, outcome, result,
                 response, eventVars>>

FindResolves ==
  /\ handler = "awaiting"
  /\ \E scores \in findHighScores(scoresCollection[body.game], body.mode,
                                  HIGH_SCORES_LIMIT) :
       result' = Success(scores)
  /\ handler' = "resumed"
  /\ UNCHANGED <<sanitizerVars, body, aggregateCalls, outcome, response,
                 eventVars>>

FindRejects ==
  /\ handler = "awaiting"
  /\ \E error \in StorageErrors : result' = Failure(error)
  /\ handler' = "resumed"
  /\ UNCHANGED <<sanitizerVars, body, aggregateCalls, outcome, response,
                 eventVars>>

RespondScoresError ==
  /\ handler = "resumed"
  /\ ~result.success
  /\ response' = [status |-> 500, error |-> "Database error"]
  /\ handler' = "responded"
  /\ UNCHANGED <<sanitizerVars, body, aggregateCalls, outcome, result,
                 eventVars>>

\* res.json((result.data || []).map(...))
RespondScores ==
  /\ handler = "resumed"
  /\ result.success
  /\ response' =
       [status |-> 200,
        body |-> [j \in 1..Len(result.data) |-> ScoreEntry(result.data[j])]]
  /\ handler' = "responded"
  /\ UNCHANGED <<sanitizerVars, body, aggregateCalls, outcome, result,
                 eventVars>>

NextScores ==
  \/ ScoresGameUnsupported
  \/ FindHighScores
  \/ FindResolves
  \/ FindRejects
  \/ RespondScoresError
  \/ RespondScores

SpecScores == InitScores /\ [][NextScores]_vars

Min(a, b) == IF a <= b THEN a ELSE b

\* C21: a 200 answer to GET /api/scores/:game/:mode lists entries of
\* score records of that game's collection with that mode, as many as
\* there are such records up to 100, in descending order of score, each
\* entry made of player_name, score and timestamp; a supported game is
\* never answered 400.
C21_HighScoresSortedAndLimited ==
  /\ (handler = "responded" /\ body.game \in SUPPORTED_GAMES) =>
       response.status \in {200, 500}
  /\ (handler = "responded" /\ response.status = 200) =>
       LET docs == scoresCollection[body.game]
           matching == {j \in 1..Len(docs) :
                          docs[j].mode = body.mode /\ docs[j].game = body.game}
           out == response.body
       IN /\ Len(out) = Min(Cardinality(matching), 100)
          /\ \A k \in 1..Len(out) :
               /\ DOMAIN out[k] = {"player_name", "score", "timestamp"}
               /\ \E j \in matching :
                    /\ out[k].player_name = docs[j].player_name
                    /\ out[k].score = docs[j].score
                    /\ out[k].timestamp = docs[j].timestamp
          /\ \A k \in 1..(Len(out) - 1) : out[k].score >= out[k + 1].score

\* 101 records of the mode asked for: the answer lists 100 of them
C21_Witness ==
  /\ handler = "responded"
  /\ response.status = 200
  /\ body = [game |-> "gundig", mode |-> "classic"]
  /\ Len(scoresCollection["gundig"]) = 101
  /\ Len(response.body) = 100
  /\ response.body[1].score > response.body[100].score

====
